---- MODULE Spec2Model ----
(***************************************************************************)
(* Model of the schema mapping registry of backend/src/schema_mapper.py:   *)
(* class SchemaMapper with its three dictionaries, its three mutating      *)
(* operations, its two read operations and the transformation evaluator.   *)
(*                                                                         *)
(* Python values are tagged records: None, int, float, bool and str carry  *)
(* a field t; a dict is a function from string keys to values and never    *)
(* has the key "t"; a str is the sequence of its characters.  A raised     *)
(* exception is the value Raise(...).  Timestamps (created_date,           *)
(* extraction_date) and the fields no operation of the registry reads      *)
(* (document_source, metadata, notes) are left out.                        *)
(***************************************************************************)
EXTENDS Integers, Sequences, FiniteSets, TLC

VARIABLES
    document_schemas,   \* self.document_schemas: dict schema_id -> DocumentSchema
    global_schemas,     \* self.global_schemas: dict in insertion order, a sequence of GlobalSchema
    mappings,           \* self.mappings: dict doc_schema_id -> list of SchemaMapping
    ret,                \* the last call: op its name, arg its arguments, val the value
                        \* returned (replaced: the registered id was already a key)
    held,               \* the snapshot of get_schema_hierarchy that the caller keeps
    in_value,           \* _apply_transformations: the argument value
    in_rules,           \* _apply_transformations: the argument rules
    out,                \* _apply_transformations: the value returned, Pending before
    threads,            \* the threads of a host that call add_mapping, each with its position
    bridge              \* IntegrationBridge.ingest_raw_documents: the call under way

vars == <<document_schemas, global_schemas, mappings, ret, held, in_value, in_rules, out,
          threads, bridge>>
\* what a call of the registry leaves alone
caller == <<held, in_value, in_rules, out, threads, bridge>>

(***************************************************************************)
(* Bounds of the model.                                                    *)
(***************************************************************************)
MaxMappings == 2        \* most mappings stored over all lists

(***************************************************************************)
(* Python values.                                                          *)
(***************************************************************************)
None == [t |-> "none"]
PyList(items) == [t |-> "list", items |-> items]
\* no value yet
Pending == [t |-> "pending"]
PyInt(n) == [t |-> "int", n |-> n]
PyFloat(n) == [t |-> "float", n |-> n]
PyBool(b) == [t |-> "bool", b |-> b]
PyStr(s) == [t |-> "str", s |-> s]
Raise(e) == [t |-> "raise", exc |-> e]
EmptyDict == <<>>
\* None where the code holds an Optional[str] (identifiers are plain strings)
NoneId == "None"

IsDict(x) == "t" \notin DOMAIN x
IsRaise(x) == ~IsDict(x) /\ x.t = "raise"
IsStr(x) == ~IsDict(x) /\ x.t = "str"
\* isinstance(value, (int, float)): bool is a subclass of int
IsIntOrFloat(x) == ~IsDict(x) /\ x.t \in {"int", "float", "bool"}
\* the number a numeric value stands for (True is 1, False is 0)
NumOf(x) == IF x.t = "bool" THEN (IF x.b THEN 1 ELSE 0) ELSE x.n

\* d.get(k, default)
DictGet(d, k, default) == IF k \in DOMAIN d THEN d[k] ELSE default
\* d[k] = v
DictSet(d, k, v) == [x \in (DOMAIN d) \cup {k} |-> IF x = k THEN v ELSE d[x]]

\* bool(x)
Truthy(x) ==
    IF IsDict(x) THEN DOMAIN x # {}
    ELSE CASE x.t = "none" -> FALSE
           [] x.t = "bool" -> x.b
           [] x.t \in {"int", "float"} -> x.n # 0
           [] x.t = "str" -> x.s # <<>>
           [] x.t = "list" -> x.items # <<>>
           [] OTHER -> TRUE

\* str.lower() and str.strip() over the characters of the model
LowerChar(c) == CASE c = "A" -> "a" [] c = "B" -> "b" [] OTHER -> c
Lower(s) == [i \in 1..Len(s) |-> LowerChar(s[i])]
IsSpace(c) == c = " "
RECURSIVE LStrip(_)
LStrip(s) == IF s # <<>> /\ IsSpace(Head(s)) THEN LStrip(Tail(s)) ELSE s
RECURSIVE RStrip(_)
RStrip(s) == IF s # <<>> /\ IsSpace(s[Len(s)]) THEN RStrip(SubSeq(s, 1, Len(s) - 1)) ELSE s
\* a variant that strips the leading whitespace only (str.lstrip)
Strip_Left(s) == LStrip(s)
Strip(s) == RStrip(LStrip(s))

RECURSIVE Repeat(_, _)
Repeat(s, n) == IF n <= 0 THEN <<>> ELSE s \o Repeat(s, n - 1)

\* a * b for a an int, float or bool
PyMul(a, b) ==
    IF IsIntOrFloat(b)
    THEN IF a.t = "float" \/ b.t = "float" THEN PyFloat(NumOf(a) * NumOf(b))
         ELSE PyInt(NumOf(a) * NumOf(b))
    ELSE IF IsStr(b) /\ a.t # "float" THEN PyStr(Repeat(b.s, NumOf(a)))
    ELSE Raise("TypeError")

\* a + b
PyAdd(a, b) ==
    IF IsRaise(a) THEN a
    ELSE IF IsIntOrFloat(a) /\ IsIntOrFloat(b)
    THEN IF a.t = "float" \/ b.t = "float" THEN PyFloat(NumOf(a) + NumOf(b))
         ELSE PyInt(NumOf(a) + NumOf(b))
    ELSE IF IsStr(a) /\ IsStr(b) THEN PyStr(a.s \o b.s)
    ELSE Raise("TypeError")

(***************************************************************************)
(* SchemaMapper._apply_transformations                                     *)
(***************************************************************************)
\* a variant that rejects a rule key it does not know
_apply_transformations_Strict(value, rules) ==
    IF ~Truthy(rules) THEN value
    ELSE IF DOMAIN rules \ {"unit_conversion", "string_normalization"} # {}
    THEN Raise("ValueError")
    ELSE IF "unit_conversion" \in DOMAIN rules /\ IsIntOrFloat(value)
    THEN LET conversion == rules["unit_conversion"] IN
         IF ~IsDict(conversion) THEN Raise("AttributeError")
         ELSE LET factor == DictGet(conversion, "factor", PyFloat(1))
                  offset == DictGet(conversion, "offset", PyFloat(0))
              IN  PyAdd(PyMul(value, factor), offset)
    ELSE IF "string_normalization" \in DOMAIN rules /\ IsStr(value)
    THEN LET norm == rules["string_normalization"] IN
         IF ~IsDict(norm) THEN Raise("AttributeError")
         ELSE LET v1 == IF Truthy(DictGet(norm, "lowercase", None))
                        THEN PyStr(Lower(value.s)) ELSE value
                  v2 == IF Truthy(DictGet(norm, "strip", None))
                        THEN PyStr(Strip(v1.s)) ELSE v1
              IN  v2
    ELSE value

\* a variant that adds the offset before it multiplies: (value + offset) * factor
_apply_transformations_OffsetFirst(value, rules) ==
    IF ~Truthy(rules) THEN value
    ELSE IF "unit_conversion" \in DOMAIN rules /\ IsIntOrFloat(value)
    THEN LET conversion == rules["unit_conversion"] IN
         IF ~IsDict(conversion) THEN Raise("AttributeError")
         ELSE LET factor == DictGet(conversion, "factor", PyFloat(1))
                  offset == DictGet(conversion, "offset", PyFloat(0))
                  sum == PyAdd(value, offset)
              IN  IF IsRaise(sum) THEN sum ELSE PyMul(sum, factor)
    ELSE IF "string_normalization" \in DOMAIN rules /\ IsStr(value)
    THEN LET norm == rules["string_normalization"] IN
         IF ~IsDict(norm) THEN Raise("AttributeError")
         ELSE LET v1 == IF Truthy(DictGet(norm, "lowercase", None))
                        THEN PyStr(Lower(value.s)) ELSE value
                  v2 == IF Truthy(DictGet(norm, "strip", None))
                        THEN PyStr(Strip(v1.s)) ELSE v1
              IN  v2
    ELSE value

_apply_transformations(value, rules) ==
    IF ~Truthy(rules) THEN value
    ELSE IF "unit_conversion" \in DOMAIN rules /\ IsIntOrFloat(value)
    THEN LET conversion == rules["unit_conversion"] IN
         IF ~IsDict(conversion) THEN Raise("AttributeError")
         ELSE LET factor == DictGet(conversion, "factor", PyFloat(1))
                  offset == DictGet(conversion, "offset", PyFloat(0))
              IN  PyAdd(PyMul(value, factor), offset)
    ELSE IF "string_normalization" \in DOMAIN rules /\ IsStr(value)
    THEN LET norm == rules["string_normalization"] IN
         IF ~IsDict(norm) THEN Raise("AttributeError")
         ELSE LET v1 == IF Truthy(DictGet(norm, "lowercase", None))
                        THEN PyStr(Lower(value.s)) ELSE value
                  v2 == IF Truthy(DictGet(norm, "strip", None))
                        THEN PyStr(Strip(v1.s)) ELSE v1
              IN  v2
    ELSE value

(***************************************************************************)
(* The inputs of the registry operations.                                  *)
(***************************************************************************)
DocIds == {"d1", "d2"}
GlobalIds == {"g1", "g2"}          \* the values f"global_{uuid.uuid4().hex[:8]}" takes
LocalProps == {"a", "b"}
GlobalProps == {"p", "q"}

\* DocumentSchema objects as the caller passes them: per id, one whose
\* property a is a number and b is null, one whose b is a string and a absent
DocumentSchemas ==
    { [schema_id |-> id, jurisdiction |-> "j1", document_title |-> "t1",
       properties |-> [a |-> PyInt(3), b |-> None]] : id \in DocIds }
    \cup
    { [schema_id |-> id, jurisdiction |-> "j2", document_title |-> "t2",
       properties |-> [b |-> PyStr(<<" ", "A">>)]] : id \in DocIds }

\* SchemaMapping.transformation_rules
NoRules == EmptyDict
Convert == [unit_conversion |-> [factor |-> PyInt(2), offset |-> PyInt(1)]]
Normalize == [string_normalization |-> [lowercase |-> PyBool(TRUE), strip |-> PyBool(TRUE)]]
\* a recognized key bound to something that is not a dict
Malformed == [unit_conversion |-> None]

SchemaMapping(lp, gp, c, r) ==
    [local_property |-> lp, global_properties |-> gp, confidence |-> c,
     transformation_rules |-> r]

\* SchemaMapping objects as the caller passes them (confidence in tenths)
SchemaMappings == {
    SchemaMapping("a", <<"p">>, 9, NoRules),
    SchemaMapping("a", <<"p", "q">>, 5, Convert),
    SchemaMapping("b", <<"p">>, 5, Normalize),
    SchemaMapping("b", <<"q">>, 9, NoRules),
    SchemaMapping("a", <<"q">>, 9, Malformed) }

\* GlobalSchema.properties
GlobalPropertyDicts == { [p |-> "def"], [p |-> "def", q |-> "def"] }
GlobalNames == {"n1"}
ParentIds == {NoneId}

(***************************************************************************)
(* SchemaMapper.__init__                                                   *)
(***************************************************************************)
RegistryInit ==
    /\ document_schemas = EmptyDict
    /\ global_schemas = <<>>
    /\ mappings = EmptyDict
    /\ ret = [op |-> "__init__", arg |-> NoneId, val |-> None]

\* no snapshot kept, no evaluation under way
CallerIdle ==
    /\ held = None
    /\ in_value = None
    /\ in_rules = None
    /\ out = Pending
    /\ threads = <<>>
    /\ bridge = None

Init == RegistryInit /\ CallerIdle

(***************************************************************************)
(* SchemaMapper.register_document_schema                                   *)
(***************************************************************************)
\* a variant that keeps the mapping list an id already has
register_document_schema_KeepMappings(schema) ==
    /\ document_schemas' = DictSet(document_schemas, schema.schema_id, schema)
    /\ mappings' = IF schema.schema_id \in DOMAIN mappings THEN mappings
                   ELSE DictSet(mappings, schema.schema_id, <<>>)
    /\ ret' = [op |-> "register_document_schema", arg |-> schema, val |-> schema.schema_id,
               replaced |-> schema.schema_id \in DOMAIN document_schemas]
    /\ UNCHANGED global_schemas

\* a variant that keeps the schema an id is already registered with
register_document_schema_KeepSchema(schema) ==
    /\ document_schemas' = IF schema.schema_id \in DOMAIN document_schemas THEN document_schemas
                           ELSE DictSet(document_schemas, schema.schema_id, schema)
    /\ mappings' = DictSet(mappings, schema.schema_id, <<>>)
    /\ ret' = [op |-> "register_document_schema", arg |-> schema, val |-> schema.schema_id,
               replaced |-> schema.schema_id \in DOMAIN document_schemas]
    /\ UNCHANGED global_schemas

register_document_schema(schema) ==
    /\ document_schemas' = DictSet(document_schemas, schema.schema_id, schema)
    /\ mappings' = DictSet(mappings, schema.schema_id, <<>>)
    /\ ret' = [op |-> "register_document_schema", arg |-> schema, val |-> schema.schema_id,
               replaced |-> schema.schema_id \in DOMAIN document_schemas]
    /\ UNCHANGED global_schemas

(***************************************************************************)
(* self.global_schemas keeps insertion order: a sequence of GlobalSchema   *)
(* records, one per key; assigning to an existing key keeps its position.  *)
(***************************************************************************)
GlobalKeys(gs) == {gs[i].schema_id : i \in 1..Len(gs)}
GlobalIndex(gs, id) == CHOOSE i \in 1..Len(gs) : gs[i].schema_id = id
GlobalSet(gs, id, schema) ==
    IF id \in GlobalKeys(gs)
    THEN [gs EXCEPT ![GlobalIndex(gs, id)] = schema]
    ELSE Append(gs, schema)

(***************************************************************************)
(* SchemaMapper.create_global_schema                                       *)
(***************************************************************************)
create_global_schema(name, properties, parent_id) ==
    \E schema_id \in GlobalIds :
        LET global_schema == [schema_id |-> schema_id,
                              name |-> name,
                              version |-> "1.0.0",
                              properties |-> properties,
                              parent_schema_id |-> parent_id,
                              source_schemas |-> {}]
        IN  /\ global_schemas' = GlobalSet(global_schemas, schema_id, global_schema)
            /\ ret' = [op |-> "create_global_schema",
                       arg |-> [name |-> name, properties |-> properties, parent_id |-> parent_id],
                       val |-> schema_id]
            /\ UNCHANGED <<document_schemas, mappings>>

(***************************************************************************)
(* SchemaMapper._find_global_schema_by_property                            *)
(***************************************************************************)
\* a variant of the scan that keeps the last match instead of the first
RECURSIVE FindFrom_Last(_, _, _)
FindFrom_Last(gs, property_name, i) ==
    IF i > Len(gs) THEN NoneId
    ELSE LET later == FindFrom_Last(gs, property_name, i + 1) IN
         IF later # NoneId THEN later
         ELSE IF property_name \in DOMAIN gs[i].properties THEN gs[i].schema_id
         ELSE NoneId

RECURSIVE FindFrom(_, _, _)
FindFrom(gs, property_name, i) ==
    IF i > Len(gs) THEN NoneId
    ELSE IF property_name \in DOMAIN gs[i].properties THEN gs[i].schema_id
    ELSE FindFrom(gs, property_name, i + 1)

_find_global_schema_by_property(gs, property_name) == FindFrom(gs, property_name, 1)

(***************************************************************************)
(* SchemaMapper.add_mapping                                                *)
(***************************************************************************)
\* a variant of the tracking loop that stops after the first target
RECURSIVE TrackSources_FirstTarget(_, _, _, _)
TrackSources_FirstTarget(gs, global_properties, i, doc_schema_id) ==
    IF i > Len(global_properties) \/ i > 1 THEN gs
    ELSE LET global_schema_id == _find_global_schema_by_property(gs, global_properties[i])
             next == IF global_schema_id # NoneId
                     THEN [gs EXCEPT ![GlobalIndex(gs, global_schema_id)].source_schemas =
                                          @ \cup {doc_schema_id}]
                     ELSE gs
         IN  TrackSources_FirstTarget(next, global_properties, i + 1, doc_schema_id)

\* a variant that credits the first global schema when no schema declares the target
RECURSIVE TrackSources_Fallback(_, _, _, _)
TrackSources_Fallback(gs, global_properties, i, doc_schema_id) ==
    IF i > Len(global_properties) THEN gs
    ELSE LET global_schema_id == _find_global_schema_by_property(gs, global_properties[i])
             next == IF global_schema_id # NoneId
                     THEN [gs EXCEPT ![GlobalIndex(gs, global_schema_id)].source_schemas =
                                          @ \cup {doc_schema_id}]
                     ELSE IF gs # <<>>
                     THEN [gs EXCEPT ![1].source_schemas = @ \cup {doc_schema_id}]
                     ELSE gs
         IN  TrackSources_Fallback(next, global_properties, i + 1, doc_schema_id)

\* the loop over mapping.global_properties that updates the source tracking
RECURSIVE TrackSources(_, _, _, _)
TrackSources(gs, global_properties, i, doc_schema_id) ==
    IF i > Len(global_properties) THEN gs
    ELSE LET global_schema_id == _find_global_schema_by_property(gs, global_properties[i])
             next == IF global_schema_id # NoneId
                     THEN [gs EXCEPT ![GlobalIndex(gs, global_schema_id)].source_schemas =
                                          @ \cup {doc_schema_id}]
                     ELSE gs
         IN  TrackSources(next, global_properties, i + 1, doc_schema_id)

\* the object appended to the list: the caller's mapping, with the history
\* field dangling that records whether the id was unregistered at the call
Stored(mapping, doc_schema_id) ==
    [local_property |-> mapping.local_property,
     global_properties |-> mapping.global_properties,
     confidence |-> mapping.confidence,
     transformation_rules |-> mapping.transformation_rules,
     dangling |-> doc_schema_id \notin DOMAIN document_schemas]

TotalMappings(ms) ==
    LET RECURSIVE Sum(_)
        Sum(S) == IF S = {} THEN 0
                  ELSE LET d == CHOOSE x \in S : TRUE IN Len(ms[d]) + Sum(S \ {d})
    IN  Sum(DOMAIN ms)

add_mapping(doc_schema_id, mapping) ==
    LET created == IF doc_schema_id \notin DOMAIN mappings
                   THEN DictSet(mappings, doc_schema_id, <<>>)
                   ELSE mappings
    IN  /\ TotalMappings(mappings) < MaxMappings
        /\ mappings' = [created EXCEPT ![doc_schema_id] = Append(@, Stored(mapping, doc_schema_id))]
        /\ global_schemas' = TrackSources(global_schemas, mapping.global_properties, 1, doc_schema_id)
        /\ ret' = [op |-> "add_mapping",
                   arg |-> [doc_schema_id |-> doc_schema_id, mapping |-> mapping],
                   val |-> None]
        /\ UNCHANGED document_schemas

(***************************************************************************)
(* SchemaMapper.get_document_values_mapped_to_global                       *)
(***************************************************************************)
\* a variant that reports the transformed value as the original one
ProvenanceRecord_Transformed(doc_schema, mapping, local_value, transformed_value) ==
    [value |-> transformed_value,
     original_value |-> transformed_value,
     original_property |-> mapping.local_property,
     confidence |-> mapping.confidence,
     source_document |-> doc_schema.document_title,
     jurisdiction |-> doc_schema.jurisdiction]

ProvenanceRecord(doc_schema, mapping, local_value, transformed_value) ==
    [value |-> transformed_value,
     original_value |-> local_value,
     original_property |-> mapping.local_property,
     confidence |-> mapping.confidence,
     source_document |-> doc_schema.document_title,
     jurisdiction |-> doc_schema.jurisdiction]

\* a variant of the inner loop that keeps an entry already written (first write wins)
RECURSIVE WriteEntries_KeepFirst(_, _, _, _)
WriteEntries_KeepFirst(result, global_properties, i, entry) ==
    IF i > Len(global_properties) THEN result
    ELSE WriteEntries_KeepFirst(
             IF global_properties[i] \in DOMAIN result THEN result
             ELSE DictSet(result, global_properties[i], entry),
             global_properties, i + 1, entry)

\* a variant of the inner loop that collects the values written under one name
RECURSIVE WriteEntries_Collect(_, _, _, _)
WriteEntries_Collect(result, global_properties, i, entry) ==
    IF i > Len(global_properties) THEN result
    ELSE WriteEntries_Collect(
             IF global_properties[i] \in DOMAIN result
             THEN DictSet(result, global_properties[i],
                          [entry EXCEPT !.value = PyList(<<result[global_properties[i]].value, @>>)])
             ELSE DictSet(result, global_properties[i], entry),
             global_properties, i + 1, entry)

\* the inner loop: one entry per target global property name
RECURSIVE WriteEntries(_, _, _, _)
WriteEntries(result, global_properties, i, entry) ==
    IF i > Len(global_properties) THEN result
    ELSE WriteEntries(DictSet(result, global_properties[i], entry), global_properties, i + 1, entry)

\* a variant of the outer loop that tests the local value for truth (if local_value:)
RECURSIVE ProjectFrom_Truthy(_, _, _, _)
ProjectFrom_Truthy(doc_schema, ms, i, result) ==
    IF i > Len(ms) THEN result
    ELSE LET mapping == ms[i]
             local_value == DictGet(doc_schema.properties, mapping.local_property, None)
         IN  IF Truthy(local_value)
             THEN LET transformed_value ==
                          _apply_transformations(local_value, mapping.transformation_rules)
                  IN  IF IsRaise(transformed_value) THEN transformed_value
                      ELSE ProjectFrom_Truthy(doc_schema, ms, i + 1,
                               WriteEntries(result, mapping.global_properties, 1,
                                   ProvenanceRecord(doc_schema, mapping, local_value,
                                                    transformed_value)))
             ELSE ProjectFrom_Truthy(doc_schema, ms, i + 1, result)

\* a variant of the outer loop in which a null local value clears the targets
RECURSIVE ProjectFrom_ClearOnNull(_, _, _, _)
ProjectFrom_ClearOnNull(doc_schema, ms, i, result) ==
    IF i > Len(ms) THEN result
    ELSE LET mapping == ms[i]
             local_value == DictGet(doc_schema.properties, mapping.local_property, None)
         IN  IF local_value # None
             THEN LET transformed_value ==
                          _apply_transformations(local_value, mapping.transformation_rules)
                  IN  IF IsRaise(transformed_value) THEN transformed_value
                      ELSE ProjectFrom_ClearOnNull(doc_schema, ms, i + 1,
                               WriteEntries(result, mapping.global_properties, 1,
                                   ProvenanceRecord(doc_schema, mapping, local_value,
                                                    transformed_value)))
             ELSE ProjectFrom_ClearOnNull(doc_schema, ms, i + 1,
                      [g \in (DOMAIN result) \ {mapping.global_properties[k] :
                                                    k \in 1..Len(mapping.global_properties)} |->
                          result[g]])

\* the outer loop over the mapping list, in list order
RECURSIVE ProjectFrom(_, _, _, _)
ProjectFrom(doc_schema, ms, i, result) ==
    IF i > Len(ms) THEN result
    ELSE LET mapping == ms[i]
             local_value == DictGet(doc_schema.properties, mapping.local_property, None)
         IN  IF local_value # None
             THEN LET transformed_value ==
                          _apply_transformations(local_value, mapping.transformation_rules)
                  IN  IF IsRaise(transformed_value) THEN transformed_value
                      ELSE ProjectFrom(doc_schema, ms, i + 1,
                               WriteEntries(result, mapping.global_properties, 1,
                                   ProvenanceRecord(doc_schema, mapping, local_value,
                                                    transformed_value)))
             ELSE ProjectFrom(doc_schema, ms, i + 1, result)

Project(doc_schema, ms) == ProjectFrom(doc_schema, ms, 1, EmptyDict)

\* a variant that tests the id against self.mappings instead of self.document_schemas
DocumentValues_CheckMappings(doc_schema_id) ==
    IF doc_schema_id \notin DOMAIN mappings THEN EmptyDict
    ELSE IF doc_schema_id \notin DOMAIN document_schemas THEN Raise("KeyError")
    ELSE Project(document_schemas[doc_schema_id], DictGet(mappings, doc_schema_id, <<>>))

\* a variant that reports only the names that some global schema declares
DocumentValues_DeclaredOnly(doc_schema_id) ==
    IF doc_schema_id \notin DOMAIN document_schemas THEN EmptyDict
    ELSE LET result == Project(document_schemas[doc_schema_id],
                               DictGet(mappings, doc_schema_id, <<>>))
         IN  IF IsRaise(result) THEN result
             ELSE [g \in {x \in DOMAIN result :
                             _find_global_schema_by_property(global_schemas, x) # NoneId} |->
                      result[g]]

DocumentValues(doc_schema_id) ==
    IF doc_schema_id \notin DOMAIN document_schemas THEN EmptyDict
    ELSE Project(document_schemas[doc_schema_id], DictGet(mappings, doc_schema_id, <<>>))

\* a variant that reads the list with self.mappings.setdefault(doc_schema_id, [])
get_document_values_mapped_to_global_SetDefault(doc_schema_id) ==
    /\ ret' = [op |-> "get_document_values_mapped_to_global",
               arg |-> doc_schema_id,
               val |-> DocumentValues(doc_schema_id)]
    /\ mappings' = IF doc_schema_id \in DOMAIN mappings THEN mappings
                   ELSE DictSet(mappings, doc_schema_id, <<>>)
    /\ UNCHANGED <<document_schemas, global_schemas>>

get_document_values_mapped_to_global(doc_schema_id) ==
    /\ ret' = [op |-> "get_document_values_mapped_to_global",
               arg |-> doc_schema_id,
               val |-> DocumentValues(doc_schema_id)]
    /\ UNCHANGED <<document_schemas, global_schemas, mappings>>

(***************************************************************************)
(* SchemaMapper.get_schema_hierarchy                                       *)
(***************************************************************************)
\* a variant that reports the list of an id latest mapping first
ReducedMappings_Reversed(ms) ==
    [i \in 1..Len(ms) |->
        [local_property |-> ms[Len(ms) + 1 - i].local_property,
         global_properties |-> ms[Len(ms) + 1 - i].global_properties,
         confidence |-> ms[Len(ms) + 1 - i].confidence]]

\* the mapping list of one id as the snapshot reports it
ReducedMappings(ms) ==
    [i \in 1..Len(ms) |->
        [local_property |-> ms[i].local_property,
         global_properties |-> ms[i].global_properties,
         confidence |-> ms[i].confidence]]

\* a variant that lists the mappings of the registered ids only
Hierarchy_RegisteredOnly ==
    [global_schemas |->
        [schema_id \in GlobalKeys(global_schemas) |->
            LET schema == global_schemas[GlobalIndex(global_schemas, schema_id)] IN
            [name |-> schema.name,
             version |-> schema.version,
             parent |-> schema.parent_schema_id,
             properties |-> DOMAIN schema.properties,
             source_count |-> Cardinality(schema.source_schemas)]],
     document_schemas |->
        [schema_id \in DOMAIN document_schemas |->
            LET schema == document_schemas[schema_id] IN
            [jurisdiction |-> schema.jurisdiction,
             document_title |-> schema.document_title,
             properties |-> DOMAIN schema.properties]],
     mappings |->
        [doc_id \in (DOMAIN mappings) \cap (DOMAIN document_schemas) |->
            ReducedMappings(mappings[doc_id])]]

\* a variant that lists only the properties of a document that hold a value
Hierarchy_ValuedProperties ==
    [global_schemas |->
        [schema_id \in GlobalKeys(global_schemas) |->
            LET schema == global_schemas[GlobalIndex(global_schemas, schema_id)] IN
            [name |-> schema.name,
             version |-> schema.version,
             parent |-> schema.parent_schema_id,
             properties |-> DOMAIN schema.properties,
             source_count |-> Cardinality(schema.source_schemas)]],
     document_schemas |->
        [schema_id \in DOMAIN document_schemas |->
            LET schema == document_schemas[schema_id] IN
            [jurisdiction |-> schema.jurisdiction,
             document_title |-> schema.document_title,
             properties |-> {k \in DOMAIN schema.properties : schema.properties[k] # None}]],
     mappings |->
        [doc_id \in DOMAIN mappings |-> ReducedMappings(mappings[doc_id])]]

Hierarchy ==
    [global_schemas |->
        [schema_id \in GlobalKeys(global_schemas) |->
            LET schema == global_schemas[GlobalIndex(global_schemas, schema_id)] IN
            [name |-> schema.name,
             version |-> schema.version,
             parent |-> schema.parent_schema_id,
             properties |-> DOMAIN schema.properties,
             source_count |-> Cardinality(schema.source_schemas)]],
     document_schemas |->
        [schema_id \in DOMAIN document_schemas |->
            LET schema == document_schemas[schema_id] IN
            [jurisdiction |-> schema.jurisdiction,
             document_title |-> schema.document_title,
             properties |-> DOMAIN schema.properties]],
     mappings |->
        [doc_id \in DOMAIN mappings |-> ReducedMappings(mappings[doc_id])]]

get_schema_hierarchy ==
    /\ ret' = [op |-> "get_schema_hierarchy", arg |-> NoneId, val |-> Hierarchy]
    /\ UNCHANGED <<document_schemas, global_schemas, mappings>>

(***************************************************************************)
(* The registry under any sequence of calls.                               *)
(***************************************************************************)
Register ==
    /\ \E schema \in DocumentSchemas : register_document_schema(schema)
    /\ UNCHANGED caller
Create ==
    /\ \E name \in GlobalNames, properties \in GlobalPropertyDicts, parent_id \in ParentIds :
           create_global_schema(name, properties, parent_id)
    /\ UNCHANGED caller
AddMapping ==
    /\ \E doc_schema_id \in DocIds, mapping \in SchemaMappings :
           add_mapping(doc_schema_id, mapping)
    /\ UNCHANGED caller
GetValues ==
    /\ \E doc_schema_id \in DocIds : get_document_values_mapped_to_global(doc_schema_id)
    /\ UNCHANGED caller
GetHierarchy ==
    /\ get_schema_hierarchy
    /\ UNCHANGED caller

Next == Register \/ Create \/ AddMapping \/ GetValues \/ GetHierarchy

Spec == Init /\ [][Next]_vars

(***************************************************************************)
(* What the claims speak of.                                               *)
(***************************************************************************)
IsProjection == ret.op = "get_document_values_mapped_to_global"
\* the projection returned for a registered id (not raised)
ReturnedProjection ==
    /\ IsProjection
    /\ ret.arg \in DOMAIN document_schemas
    /\ ~IsRaise(ret.val)

Targets(m) == {m.global_properties[i] : i \in 1..Len(m.global_properties)}
LocalValue(doc, m) == DictGet(doc.properties, m.local_property, None)
\* the local property of m has a non-null value in doc
HasValue(doc, m) == LocalValue(doc, m) # None
\* the provenance record the specification describes for mapping m of doc
RecordOf(doc, m) ==
    [value |-> _apply_transformations(LocalValue(doc, m), m.transformation_rules),
     original_value |-> LocalValue(doc, m),
     original_property |-> m.local_property,
     confidence |-> m.confidence,
     source_document |-> doc.document_title,
     jurisdiction |-> doc.jurisdiction]
\* the positions of the list ms whose mapping has a value and targets g
Writers(doc, ms, g) == {i \in 1..Len(ms) : HasValue(doc, ms[i]) /\ g \in Targets(ms[i])}
Last(S) == CHOOSE i \in S : \A j \in S : j <= i

\* C1 as stated: the projection of a registered document holds, for EVERY
\* mapping with a non-null local value and every target g of it, that
\* mapping's provenance record under g, and has no other key.
C1_AsStated ==
    ReturnedProjection =>
        LET doc == document_schemas[ret.arg]
            ms == mappings[ret.arg]
        IN  /\ \A i \in 1..Len(ms) : HasValue(doc, ms[i]) =>
                   \A g \in Targets(ms[i]) :
                       g \in DOMAIN ret.val /\ ret.val[g] = RecordOf(doc, ms[i])
            /\ \A g \in DOMAIN ret.val : Writers(doc, ms, g) # {}

\* C1, amended: when the projection of a registered document returns, its
\* keys are exactly the targets of the mappings with a non-null local value,
\* and the entry under g is the provenance record (transformed value,
\* original value, local property, confidence, title, jurisdiction) of the
\* last such mapping of the list that targets g.
C1_Projection ==
    ReturnedProjection =>
        LET doc == document_schemas[ret.arg]
            ms == mappings[ret.arg]
        IN  /\ DOMAIN ret.val = {g \in GlobalProps : Writers(doc, ms, g) # {}}
            /\ \A g \in DOMAIN ret.val :
                   ret.val[g] = RecordOf(doc, ms[Last(Writers(doc, ms, g))])

\* a projection with two keys written by one mapping whose rules changed the value
C1_Witness ==
    /\ ReturnedProjection
    /\ DOMAIN ret.val = {"p", "q"}
    /\ ret.val["p"] = ret.val["q"]
    /\ ret.val["p"].value # ret.val["p"].original_value
    /\ ret.val["p"].original_property = "a"

\* C2 as stated: whenever two mappings of a document target the same global
\* property name, the entry for that name is the record of the later one.
C2_AsStated ==
    ReturnedProjection =>
        LET doc == document_schemas[ret.arg]
            ms == mappings[ret.arg]
        IN  \A i, j \in 1..Len(ms) : \A g \in Targets(ms[i]) \cap Targets(ms[j]) :
                (i < j /\ g \in DOMAIN ret.val /\ \A k \in 1..Len(ms) : g \in Targets(ms[k]) => k <= j)
                    => ret.val[g] = RecordOf(doc, ms[j])

\* C2, amended: whenever two mappings of a document that both have a
\* non-null local value target the same global property name, the entry for
\* that name is exactly the record of the one added later (the last such
\* mapping of the list), not the earlier one's and not a merge.
C2_LastWriteWins ==
    ReturnedProjection =>
        LET doc == document_schemas[ret.arg]
            ms == mappings[ret.arg]
        IN  \A g \in GlobalProps : \A i, j \in Writers(doc, ms, g) :
                (i < j /\ j = Last(Writers(doc, ms, g)))
                    => /\ g \in DOMAIN ret.val
                       /\ ret.val[g] = RecordOf(doc, ms[j])
                       /\ RecordOf(doc, ms[i]) # RecordOf(doc, ms[j]) => ret.val[g] # RecordOf(doc, ms[i])

\* two mappings with a value and different records target p; the later one is reported
C2_Witness ==
    /\ ReturnedProjection
    /\ LET doc == document_schemas[ret.arg]
           ms == mappings[ret.arg]
       IN  /\ Len(ms) = 2
           /\ Writers(doc, ms, "p") = {1, 2}
           /\ RecordOf(doc, ms[1]) # RecordOf(doc, ms[2])
           /\ ret.val["p"] = RecordOf(doc, ms[2])

IsPrefix(s, t) == Len(s) <= Len(t) /\ SubSeq(t, 1, Len(s)) = s
NotDangling(m) == ~m.dangling
\* the first position of gs, in scan order, whose schema declares p; 0 if none
FirstDeclaring(gs, p) ==
    LET D == {i \in 1..Len(gs) : p \in DOMAIN gs[i].properties}
    IN  IF D = {} THEN 0 ELSE CHOOSE i \in D : \A j \in D : i <= j
SourcesOf(gs, id) == gs[GlobalIndex(gs, id)].source_schemas

\* C3: once add_mapping(d, m) has been executed, m stays in the mapping list
\* stored for d in every later state: every step keeps every stored list as
\* a prefix of the list stored afterwards.
C3_AsStated ==
    [][\A d \in DOMAIN mappings :
           d \in DOMAIN mappings' /\ IsPrefix(mappings[d], mappings'[d])]_vars

\* C4: a mapping added while its document id was not registered is in no
\* list that a projection reads, before or after a later registration of the
\* id: the projection of a registered id is the projection of its mappings
\* added since it was registered, the projection of an unregistered id is
\* empty, and add_mapping returns None.
C4_DanglingNeverProjected ==
    /\ \A d \in DocIds :
           IF d \in DOMAIN document_schemas
           THEN /\ \A i \in 1..Len(mappings[d]) : ~mappings[d][i].dangling
                /\ DocumentValues(d) =
                       Project(document_schemas[d], SelectSeq(mappings[d], NotDangling))
           ELSE DocumentValues(d) = EmptyDict
    /\ IsProjection /\ ret.arg \notin DOMAIN document_schemas => ret.val = EmptyDict
    /\ ret.op = "add_mapping" => ret.val = None

\* the projection of an unregistered id that has a stored mapping came back empty
C4_Witness ==
    /\ IsProjection
    /\ ret.arg \notin DOMAIN document_schemas
    /\ ret.arg \in DOMAIN mappings
    /\ \E i \in 1..Len(mappings[ret.arg]) : mappings[ret.arg][i].dangling
    /\ ret.val = EmptyDict

\* C5 as stated: a mapping added for an unregistered id appears in no
\* projection and nowhere in the snapshot of get_schema_hierarchy.
C5_AsStated ==
    /\ \A d \in DOMAIN mappings :
           (\E i \in 1..Len(mappings[d]) : mappings[d][i].dangling) => DocumentValues(d) = EmptyDict
    /\ ret.op = "get_schema_hierarchy" =>
           \A d \in DOMAIN mappings :
               d \in DOMAIN ret.val.mappings =>
                   Len(ret.val.mappings[d]) = Len(SelectSeq(mappings[d], NotDangling))

\* C5, amended: a mapping added for an unregistered id is stored and appears
\* in no projection, but the snapshot of get_schema_hierarchy lists it, in its
\* place, under mappings[id] (an id the snapshot's document_schemas lacks).
C5_DanglingListed ==
    \A d \in DOMAIN mappings : \A i \in 1..Len(mappings[d]) :
        mappings[d][i].dangling =>
            /\ d \notin DOMAIN document_schemas
            /\ DocumentValues(d) = EmptyDict
            /\ ret.op = "get_schema_hierarchy" =>
                   /\ d \in DOMAIN ret.val.mappings
                   /\ d \notin DOMAIN ret.val.document_schemas
                   /\ Len(ret.val.mappings[d]) = Len(mappings[d])
                   /\ ret.val.mappings[d][i] =
                          [local_property |-> mappings[d][i].local_property,
                           global_properties |-> mappings[d][i].global_properties,
                           confidence |-> mappings[d][i].confidence]

\* a snapshot taken while a mapping is stored under an unregistered id
C5_Witness ==
    /\ ret.op = "get_schema_hierarchy"
    /\ \E d \in DOMAIN mappings :
           /\ d \notin DOMAIN document_schemas
           /\ mappings[d] # <<>>
           /\ mappings[d][1].dangling
           /\ Len(ret.val.mappings[d]) = Len(mappings[d])

\* C6: for every global schema identifier the source_schemas set stored under
\* it only grows: no step removes the identifier or a document id from its
\* set (so its source_count never decreases).
C6_AsStated ==
    [][\A id \in GlobalKeys(global_schemas) :
           /\ id \in GlobalKeys(global_schemas')
           /\ SourcesOf(global_schemas, id) \subseteq SourcesOf(global_schemas', id)]_vars

\* C7: add_mapping(d, m) adds d to the source_schemas of exactly the schemas
\* that are, for some target of m, the first in scan order to declare it, and
\* leaves every other source_schemas set as it was, also of the other schemas
\* that declare the same property name.
C7_FirstMatchOnly ==
    [][ret'.op = "add_mapping" =>
          LET d == ret'.arg.doc_schema_id
              m == ret'.arg.mapping
          IN  /\ Len(global_schemas') = Len(global_schemas)
              /\ \A i \in 1..Len(global_schemas) :
                     global_schemas'[i].source_schemas =
                         global_schemas[i].source_schemas \cup
                             (IF \E p \in Targets(m) : FirstDeclaring(global_schemas, p) = i
                              THEN {d} ELSE {})]_vars

\* two schemas declare p; the add_mapping just made tracked the first one only
C7_Witness ==
    /\ ret.op = "add_mapping"
    /\ Len(global_schemas) = 2
    /\ "p" \in DOMAIN global_schemas[1].properties
    /\ "p" \in DOMAIN global_schemas[2].properties
    /\ ret.arg.mapping.global_properties = <<"p">>
    /\ ret.arg.doc_schema_id \in global_schemas[1].source_schemas
    /\ ret.arg.doc_schema_id \notin global_schemas[2].source_schemas

\* C8: in every reachable state, every document id in the source_schemas of
\* a global schema G has, in its stored mapping list, a mapping with a target
\* that G declares.
C8_AsStated ==
    \A k \in 1..Len(global_schemas) : \A d \in global_schemas[k].source_schemas :
        /\ d \in DOMAIN mappings
        /\ \E i \in 1..Len(mappings[d]) :
               Targets(mappings[d][i]) \cap DOMAIN global_schemas[k].properties # {}

\* C9 as stated: in every reachable state, every document id with a stored
\* mapping targeting p is in the source_schemas of the first global schema
\* that declares p, whether that schema was created before or after.
C9_AsStated ==
    \A d \in DOMAIN mappings : \A i \in 1..Len(mappings[d]) : \A p \in Targets(mappings[d][i]) :
        FirstDeclaring(global_schemas, p) # 0 =>
            d \in global_schemas[FirstDeclaring(global_schemas, p)].source_schemas

\* C9, amended: add_mapping(d, m) puts d into the source_schemas of the
\* schema that is, at the call, the first to declare each target of m; a
\* schema stored by a later create_global_schema starts with no sources,
\* whatever the stored mappings target.
C9_TrackedAtAddOnly ==
    /\ [][ret'.op = "add_mapping" =>
             \A p \in Targets(ret'.arg.mapping) :
                 FirstDeclaring(global_schemas, p) # 0 =>
                     ret'.arg.doc_schema_id \in
                         global_schemas'[FirstDeclaring(global_schemas, p)].source_schemas]_vars
    /\ [](ret.op = "create_global_schema" => SourcesOf(global_schemas, ret.val) = {})

\* a schema declaring p was just created without sources although a stored
\* mapping targets p and no earlier schema declares p
C9_Witness ==
    /\ ret.op = "create_global_schema"
    /\ FirstDeclaring(global_schemas, "p") = GlobalIndex(global_schemas, ret.val)
    /\ SourcesOf(global_schemas, ret.val) = {}
    /\ \E d \in DOMAIN mappings : \E i \in 1..Len(mappings[d]) : "p" \in Targets(mappings[d][i])

\* C10: register_document_schema(s) returns s's identifier and leaves s
\* stored under it with an empty mapping list, also when the identifier was
\* registered before (the later schema replaces the earlier); every entry of a
\* projection carries the title, the jurisdiction and the property value of
\* the schema now registered.
C10_Register ==
    /\ [][ret'.op = "register_document_schema" =>
             /\ ret'.val = ret'.arg.schema_id
             /\ document_schemas' = [id \in (DOMAIN document_schemas) \cup {ret'.val} |->
                                        IF id = ret'.val THEN ret'.arg ELSE document_schemas[id]]
             /\ ret'.val \in DOMAIN mappings' /\ mappings'[ret'.val] = <<>>
             /\ ret'.replaced = (ret'.val \in DOMAIN document_schemas)]_vars
    /\ [](ReturnedProjection =>
             \A g \in DOMAIN ret.val :
                 /\ ret.val[g].source_document = document_schemas[ret.arg].document_title
                 /\ ret.val[g].jurisdiction = document_schemas[ret.arg].jurisdiction
                 /\ ret.val[g].original_property \in DOMAIN document_schemas[ret.arg].properties
                 /\ ret.val[g].original_value =
                        document_schemas[ret.arg].properties[ret.val[g].original_property])

\* an identifier that was registered has just been registered again
C10_Witness ==
    /\ ret.op = "register_document_schema"
    /\ ret.replaced
    /\ document_schemas[ret.val] = ret.arg
    /\ mappings[ret.val] = <<>>

IsHierarchy == ret.op = "get_schema_hierarchy"

\* C11: any two create_global_schema calls return distinct identifiers: every
\* call returns an identifier that is not yet a key, stores one more global
\* schema and leaves the schemas created before in place.
C11_AsStated ==
    [][ret'.op = "create_global_schema" =>
          /\ ret'.val \notin GlobalKeys(global_schemas)
          /\ Len(global_schemas') = Len(global_schemas) + 1
          /\ IsPrefix(global_schemas, global_schemas')]_vars

\* C12: the snapshot of get_schema_hierarchy lists every registered document
\* schema and every stored global schema exactly once, by identifier, with no
\* other entry; each with the keys of its property mapping, each global schema
\* with source_count the size of its source_schemas set.
C12_HierarchyComplete ==
    /\ Cardinality(GlobalKeys(global_schemas)) = Len(global_schemas)
    /\ IsHierarchy =>
           /\ DOMAIN ret.val.document_schemas = DOMAIN document_schemas
           /\ \A d \in DOMAIN document_schemas :
                  ret.val.document_schemas[d].properties = DOMAIN document_schemas[d].properties
           /\ DOMAIN ret.val.global_schemas = {global_schemas[i].schema_id : i \in 1..Len(global_schemas)}
           /\ \A i \in 1..Len(global_schemas) :
                  LET e == ret.val.global_schemas[global_schemas[i].schema_id] IN
                  /\ e.properties = DOMAIN global_schemas[i].properties
                  /\ e.source_count = Cardinality(global_schemas[i].source_schemas)

\* a snapshot of two documents, one with a null-valued property, and two
\* global schemas, one of them with a source
C12_Witness ==
    /\ IsHierarchy
    /\ DOMAIN ret.val.document_schemas = DocIds
    /\ \E d \in DocIds : ret.val.document_schemas[d].properties = {"a", "b"}
    /\ Len(global_schemas) = 2
    /\ \E id \in DOMAIN ret.val.global_schemas : ret.val.global_schemas[id].source_count = 1

\* C13: the two read operations change nothing of the registry: a step of
\* get_schema_hierarchy or of get_document_values_mapped_to_global, for a
\* known or an unknown id, leaves the document schemas, the global schemas
\* with their source_schemas sets and the mapping lists as they were.
C13_ReadsArePure ==
    [][(ret'.op = "get_schema_hierarchy" \/ ret'.op = "get_document_values_mapped_to_global") =>
          /\ document_schemas' = document_schemas
          /\ global_schemas' = global_schemas
          /\ mappings' = mappings]_vars

\* a projection was asked for an id the registry has never seen, and the
\* registry still has no mapping list for it
C13_Witness ==
    /\ IsProjection
    /\ ret.arg \notin DOMAIN document_schemas
    /\ ret.arg \notin DOMAIN mappings
    /\ DOMAIN mappings # {}

\* C15: get_document_values_mapped_to_global called with an identifier that
\* is not a registered document schema returns an empty mapping and raises
\* nothing, also when mappings are stored under that identifier.
C15_UnknownIdEmpty ==
    (IsProjection /\ ret.arg \notin DOMAIN document_schemas) =>
        /\ IsDict(ret.val)
        /\ DOMAIN ret.val = {}

\* the projection of an unregistered id with two stored mappings is empty
C15_Witness ==
    /\ IsProjection
    /\ ret.arg \notin DOMAIN document_schemas
    /\ ret.arg \in DOMAIN mappings
    /\ Len(mappings[ret.arg]) = 2
    /\ DOMAIN ret.val = {}

(***************************************************************************)
(* The transformation evaluator on its own: one call of                    *)
(* _apply_transformations(value, rules) for every value and rule set of    *)
(* the sets below.                                                         *)
(***************************************************************************)
IntBound == 2       \* numbers range over -IntBound..IntBound
MaxStrLen == 2      \* strings have at most MaxStrLen characters

Chars == {" ", "A", "b"}
RECURSIVE StringsUpTo(_)
StringsUpTo(n) ==
    IF n = 0 THEN {<<>>}
    ELSE LET shorter == StringsUpTo(n - 1)
         IN  shorter \cup {Append(s, c) : s \in {x \in shorter : Len(x) = n - 1}, c \in Chars}

\* raw values: None, numbers, booleans, strings, a sequence, mappings
Values ==
    {None, PyBool(TRUE), PyBool(FALSE)}
    \cup {PyInt(n) : n \in -IntBound..IntBound}
    \cup {PyFloat(n) : n \in -IntBound..IntBound}
    \cup {PyStr(s) : s \in StringsUpTo(MaxStrLen)}
    \cup {PyList(<<>>), PyList(<<PyInt(1)>>), EmptyDict, [k |-> PyInt(1)]}

\* the key is not in the rule dictionary
Absent == [t |-> "absent"]

\* what rules['unit_conversion'] may be bound to
ConversionOptions ==
    {Absent, EmptyDict,
     [factor |-> PyInt(2)], [offset |-> PyInt(1)],
     [factor |-> PyInt(2), offset |-> PyInt(1)],
     [factor |-> PyFloat(-1), offset |-> PyFloat(2)],
     [factor |-> PyInt(0)],
     None, [factor |-> PyStr(<<"b">>)], [offset |-> None]}

\* what rules['string_normalization'] may be bound to
NormalizationOptions ==
    {Absent, EmptyDict,
     [lowercase |-> PyBool(TRUE)], [strip |-> PyBool(TRUE)],
     [lowercase |-> PyBool(TRUE), strip |-> PyBool(TRUE)],
     [lowercase |-> PyBool(FALSE), strip |-> PyInt(1)],
     [lowercase |-> PyStr(<<"b">>), strip |-> None],
     None}

\* a key the evaluator does not know
UnknownKey == "rounding"

\* the rule dictionary with the given bindings
RuleDict(conversion, normalization, unknown) ==
    LET keys == (IF conversion # Absent THEN {"unit_conversion"} ELSE {})
                \cup (IF normalization # Absent THEN {"string_normalization"} ELSE {})
                \cup (IF unknown THEN {UnknownKey} ELSE {})
    IN  [k \in keys |-> CASE k = "unit_conversion" -> conversion
                          [] k = "string_normalization" -> normalization
                          [] OTHER -> PyInt(2)]

\* rules: a dictionary, or None
RuleSets ==
    {None} \cup {RuleDict(c, n, u) : c \in ConversionOptions, n \in NormalizationOptions,
                                     u \in BOOLEAN}

ApplyInit ==
    /\ RegistryInit
    /\ held = None
    /\ threads = <<>>
    /\ bridge = None
    /\ in_value \in Values
    /\ in_rules \in RuleSets
    /\ out = Pending

Apply ==
    /\ out = Pending
    /\ out' = _apply_transformations(in_value, in_rules)
    /\ UNCHANGED <<document_schemas, global_schemas, mappings, ret, held, in_value, in_rules,
                   threads, bridge>>

ApplyNext == Apply

SpecApply == ApplyInit /\ [][ApplyNext]_vars

Done == out # Pending
IsNumber(x) == ~IsDict(x) /\ x.t \in {"int", "float"}
HasKey(d, k) == IsDict(d) /\ k \in DOMAIN d
\* rules['unit_conversion'] is a dict whose factor and offset, if given, are numbers
GoodConversion(r) ==
    /\ HasKey(r, "unit_conversion")
    /\ IsDict(r["unit_conversion"])
    /\ \A k \in DOMAIN r["unit_conversion"] :
           k \in {"factor", "offset"} /\ IsNumber(r["unit_conversion"][k])
\* rules['string_normalization'] is a dict of flags
GoodNormalization(r) ==
    /\ HasKey(r, "string_normalization")
    /\ IsDict(r["string_normalization"])
\* the flag is set
Flag(r, name) == Truthy(DictGet(r["string_normalization"], name, None))
\* the rule set that has only the key k of r
Only(r, k) == [x \in {k} |-> r[k]]
\* r with one more key, one the evaluator does not know
WithUnknown(r) == [x \in (DOMAIN r) \cup {"notes"} |-> IF x = "notes" THEN PyStr(<<"b">>) ELSE r[x]]

\* the string with every upper-case letter replaced by its lower-case letter
Lowered(s) == [i \in 1..Len(s) |-> IF s[i] = "A" THEN "a" ELSE s[i]]
\* the string from its first to its last character that is not whitespace
Trimmed(s) ==
    LET N == {i \in 1..Len(s) : s[i] # " "}
    IN  IF N = {} THEN <<>>
        ELSE SubSeq(s, CHOOSE i \in N : \A j \in N : i <= j, CHOOSE i \in N : \A j \in N : j <= i)

\* C16: identity law: a rule set that is absent, empty or made of keys the
\* evaluator does not know returns the value unchanged, for every value; and
\* adding an unknown key to a rule set does not change the result.
C16_Identity ==
    Done =>
        /\ (~IsDict(in_rules) \/ DOMAIN in_rules \subseteq {UnknownKey}) => out = in_value
        /\ IsDict(in_rules) => _apply_transformations(in_value, WithUnknown(in_rules)) = out

\* a mixed-case string went through a rule set of one unknown key, unchanged
C16_Witness ==
    /\ Done
    /\ IsDict(in_rules) /\ DOMAIN in_rules = {UnknownKey}
    /\ in_value = PyStr(<<" ", "A">>)
    /\ out = in_value

\* C17: for a number v and a unit_conversion rule the evaluator returns the
\* number v * factor + offset, with factor 1 when the rule gives none and
\* offset 0 when it gives none; with neither, a number equal to v.
C17_UnitConversion ==
    (Done /\ IsNumber(in_value) /\ GoodConversion(in_rules)) =>
        LET conversion == in_rules["unit_conversion"]
            f == IF "factor" \in DOMAIN conversion THEN conversion["factor"].n ELSE 1
            o == IF "offset" \in DOMAIN conversion THEN conversion["offset"].n ELSE 0
        IN  /\ IsNumber(out)
            /\ out.n = in_value.n * f + o
            /\ DOMAIN conversion = {} => out.n = in_value.n

\* a number was converted with a factor and an offset that do not commute
C17_Witness ==
    /\ Done
    /\ in_value = PyInt(2)
    /\ GoodConversion(in_rules)
    /\ in_rules["unit_conversion"] = [factor |-> PyInt(2), offset |-> PyInt(1)]
    /\ out = PyInt(5)

\* C18: a unit_conversion rule applied to a value that is not a number (a
\* string, a boolean, a sequence, a mapping) returns the value unchanged,
\* whatever the factor and the offset.
C18_AsStated ==
    (Done /\ ~IsNumber(in_value) /\ GoodConversion(in_rules)
          /\ "string_normalization" \notin DOMAIN in_rules)
        => out = in_value

\* C19: for a string and a string_normalization rule the evaluator returns
\* the string lower-cased if and only if the lowercase flag is set, then
\* stripped of leading and trailing whitespace if and only if the strip flag
\* is set; a value that is not a string comes back unchanged.
C19_StringNormalization ==
    (Done /\ GoodNormalization(in_rules)) =>
        /\ IsStr(in_value) =>
               LET lowered == IF Flag(in_rules, "lowercase") THEN Lowered(in_value.s) ELSE in_value.s
                   stripped == IF Flag(in_rules, "strip") THEN Trimmed(lowered) ELSE lowered
               IN  out = PyStr(stripped)
        /\ (~IsStr(in_value) /\ "unit_conversion" \notin DOMAIN in_rules) => out = in_value

\* a string with an upper-case letter between spaces was lower-cased and stripped
C19_Witness ==
    /\ Done
    /\ GoodNormalization(in_rules)
    /\ Flag(in_rules, "lowercase") /\ Flag(in_rules, "strip")
    /\ in_value = PyStr(<<"A", " ">>)
    /\ out = PyStr(<<"a">>)

\* C20: for a rule set with both keys the result is the result of the two
\* single-key rule sets applied one after the other, in either order: the
\* unit conversion alone for a number, the string normalization alone for a
\* string, and the unchanged value for any other value.
C20_AsStated ==
    (Done /\ GoodConversion(in_rules) /\ GoodNormalization(in_rules)) =>
        LET conversion == Only(in_rules, "unit_conversion")
            normalization == Only(in_rules, "string_normalization")
        IN  /\ out = _apply_transformations(_apply_transformations(in_value, conversion), normalization)
            /\ out = _apply_transformations(_apply_transformations(in_value, normalization), conversion)
            /\ IsNumber(in_value) => out = _apply_transformations(in_value, conversion)
            /\ IsStr(in_value) => out = _apply_transformations(in_value, normalization)
            /\ (~IsNumber(in_value) /\ ~IsStr(in_value)) => out = in_value

(***************************************************************************)
(* The caller keeps the dictionary that get_schema_hierarchy returned and  *)
(* modifies it.  The snapshot's dictionaries and lists are new objects,    *)
(* but the value under 'global_properties' of a mapping entry is           *)
(* m.global_properties, the list object of the stored SchemaMapping: the   *)
(* field shared of an entry tells whether the registry still stores the    *)
(* mapping that owns the list (at the same id and position).               *)
(***************************************************************************)
MaxTargets == 3     \* most names in a global_properties list
MaxKept == 1        \* most mappings stored while a caller modifies snapshots

KeptMappings(ms) ==
    [i \in 1..Len(ms) |->
        [local_property |-> ms[i].local_property,
         global_properties |-> ms[i].global_properties,
         confidence |-> ms[i].confidence,
         shared |-> TRUE]]

\* the object get_schema_hierarchy returns, as the caller holds it
KeptSnapshot ==
    [global_schemas |-> Hierarchy.global_schemas,
     document_schemas |-> Hierarchy.document_schemas,
     mappings |-> [doc_id \in DOMAIN mappings |-> KeptMappings(mappings[doc_id])]]

\* register_document_schema binds the id to a new list: the mappings of the old
\* list are no longer stored, their lists live on in the kept snapshot only
Detached(h, doc_id) ==
    IF h = None \/ doc_id \notin DOMAIN h.mappings THEN h
    ELSE [h EXCEPT !.mappings[doc_id] =
             [i \in 1..Len(@) |-> [@[i] EXCEPT !.shared = FALSE]]]

\* what the caller reads in the kept snapshot
Content(h) ==
    IF h = None THEN None
    ELSE [global_schemas |-> h.global_schemas,
          document_schemas |-> h.document_schemas,
          mappings |-> [d \in DOMAIN h.mappings |->
                           [i \in 1..Len(h.mappings[d]) |->
                               [local_property |-> h.mappings[d][i].local_property,
                                global_properties |-> h.mappings[d][i].global_properties,
                                confidence |-> h.mappings[d][i].confidence]]]]

SnapshotDocIds == {"d1"}
SnapshotSchemas == {schema \in DocumentSchemas :
                        schema.schema_id \in SnapshotDocIds /\ schema.jurisdiction = "j1"}
SnapshotMappings == {SchemaMapping("a", <<"p">>, 9, NoRules),
                     SchemaMapping("b", <<"q">>, 9, NoRules)}
SnapshotPropertyDicts == {[p |-> "def", q |-> "def"]}

SnapshotRegister ==
    /\ \E schema \in SnapshotSchemas :
           /\ register_document_schema(schema)
           /\ held' = Detached(held, schema.schema_id)
    /\ UNCHANGED <<in_value, in_rules, out, threads, bridge>>

SnapshotCreate ==
    /\ \E name \in GlobalNames, properties \in SnapshotPropertyDicts, parent_id \in ParentIds :
           create_global_schema(name, properties, parent_id)
    /\ UNCHANGED caller

SnapshotAddMapping ==
    /\ TotalMappings(mappings) < MaxKept
    /\ \E doc_schema_id \in SnapshotDocIds, mapping \in SnapshotMappings :
           add_mapping(doc_schema_id, mapping)
    /\ UNCHANGED caller

SnapshotGetValues ==
    /\ \E doc_schema_id \in SnapshotDocIds : get_document_values_mapped_to_global(doc_schema_id)
    /\ UNCHANGED caller

\* hierarchy = mapper.get_schema_hierarchy(), kept by the caller
SnapshotTake ==
    /\ get_schema_hierarchy
    /\ held' = KeptSnapshot
    /\ UNCHANGED <<in_value, in_rules, out, threads, bridge>>

\* hierarchy['mappings'][doc_id][i]['global_properties'].append(name)
SnapshotAppendTarget ==
    /\ held # None
    /\ \E doc_id \in DOMAIN held.mappings : \E i \in 1..Len(held.mappings[doc_id]) :
       \E name \in GlobalProps :
           /\ Len(held.mappings[doc_id][i].global_properties) < MaxTargets
           /\ held' = [held EXCEPT !.mappings[doc_id][i].global_properties = Append(@, name)]
           /\ mappings' = IF held.mappings[doc_id][i].shared
                          THEN [mappings EXCEPT ![doc_id][i].global_properties = Append(@, name)]
                          ELSE mappings
           /\ ret' = [op |-> "snapshot_modified", arg |-> doc_id, val |-> None]
    /\ UNCHANGED <<document_schemas, global_schemas, in_value, in_rules, out, threads, bridge>>

\* hierarchy['mappings'][doc_id].clear()
SnapshotClearList ==
    /\ held # None
    /\ \E doc_id \in DOMAIN held.mappings :
           /\ held.mappings[doc_id] # <<>>
           /\ held' = [held EXCEPT !.mappings[doc_id] = <<>>]
           /\ ret' = [op |-> "snapshot_modified", arg |-> doc_id, val |-> None]
    /\ UNCHANGED <<document_schemas, global_schemas, mappings, in_value, in_rules, out,
                   threads, bridge>>

SnapshotNext ==
    \/ SnapshotRegister \/ SnapshotCreate \/ SnapshotAddMapping \/ SnapshotGetValues
    \/ SnapshotTake \/ SnapshotAppendTarget \/ SnapshotClearList

SpecSnapshot == Init /\ [][SnapshotNext]_vars

\* C14: the snapshot of get_schema_hierarchy shares nothing with the
\* registry: no call of the registry changes a snapshot returned before, and
\* no modification of a list inside a returned snapshot, the global_properties
\* list of a mapping entry included, changes what the registry stores.
C14_AsStated ==
    /\ [][ret'.op \in {"register_document_schema", "create_global_schema", "add_mapping",
                       "get_document_values_mapped_to_global"}
              => Content(held') = Content(held)]_vars
    /\ [][ret'.op = "snapshot_modified"
              => /\ mappings' = mappings
                 /\ document_schemas' = document_schemas
                 /\ global_schemas' = global_schemas]_vars

(***************************************************************************)
(* Further claims about the registry under any sequence of calls (Spec).   *)
(***************************************************************************)
\* the list stored for an id, empty when the id has none
ListOf(ms, doc_schema_id) == DictGet(ms, doc_schema_id, <<>>)
\* the add_mapping call that has just returned, and what it was given
IsAdd == ret.op = "add_mapping"

\* C21: no core operation raises on malformed input: add_mapping stores the
\* mapping with the confidence it was given, the projection reports that
\* confidence, and the projection of a registered document completes without
\* raising whatever rule dictionaries its stored mappings carry.
C21_AsStated ==
    /\ IsAdd => LET ms == mappings[ret.arg.doc_schema_id]
                IN  ms[Len(ms)].confidence = ret.arg.mapping.confidence
    /\ (IsProjection /\ ret.arg \in DOMAIN document_schemas) =>
           /\ ~IsRaise(ret.val)
           /\ \A g \in DOMAIN ret.val :
                  \E i \in 1..Len(ListOf(mappings, ret.arg)) :
                      /\ g \in Targets(mappings[ret.arg][i])
                      /\ ret.val[g].confidence = mappings[ret.arg][i].confidence

\* a global schema without its source tracking
Untracked(schema) == [schema EXCEPT !.source_schemas = {}]
\* a stored mapping as the caller passed it
AsPassed(m) == [local_property |-> m.local_property,
                global_properties |-> m.global_properties,
                confidence |-> m.confidence,
                transformation_rules |-> m.transformation_rules]

\* C23: add_mapping(d, m) raises nothing and changes nothing but the mapping
\* list of d, which gets m appended, and source_schemas sets, which can only
\* gain d: a target that no global schema declares changes no set, and the
\* document schemas, the lists of the other ids and every other field of
\* every global schema stay as they were.
C23_AddMappingFrame ==
    [][ret'.op = "add_mapping" =>
          LET d == ret'.arg.doc_schema_id
              m == ret'.arg.mapping
              before == ListOf(mappings, d)
          IN  /\ ret'.val = None
              /\ document_schemas' = document_schemas
              /\ DOMAIN mappings' = (DOMAIN mappings) \cup {d}
              /\ \A x \in (DOMAIN mappings) \ {d} : mappings'[x] = mappings[x]
              /\ Len(mappings'[d]) = Len(before) + 1
              /\ IsPrefix(before, mappings'[d])
              /\ AsPassed(mappings'[d][Len(mappings'[d])]) = m
              /\ Len(global_schemas') = Len(global_schemas)
              /\ \A i \in 1..Len(global_schemas) :
                     /\ Untracked(global_schemas'[i]) = Untracked(global_schemas[i])
                     /\ global_schemas[i].source_schemas \subseteq global_schemas'[i].source_schemas
                     /\ global_schemas'[i].source_schemas \subseteq
                            global_schemas[i].source_schemas \cup {d}
                     /\ global_schemas'[i].source_schemas # global_schemas[i].source_schemas
                            => \E p \in Targets(m) : FirstDeclaring(global_schemas, p) = i]_vars

\* a mapping to q has just been added while the only global schema, which
\* declares p alone, still has no source
C23_Witness ==
    /\ IsAdd
    /\ ret.arg.mapping.global_properties = <<"q">>
    /\ Len(global_schemas) = 1
    /\ FirstDeclaring(global_schemas, "q") = 0
    /\ global_schemas[1].source_schemas = {}
    /\ Len(mappings[ret.arg.doc_schema_id]) = 1

\* C24: create_global_schema(name, properties, parent_id) stores, under the
\* identifier it returns, a global schema with that name and those
\* properties, version "1.0.0", no sources and the parent exactly as given,
\* and leaves the document schemas, the mapping lists and every global schema
\* created before unchanged.
C24_AsStated ==
    [][ret'.op = "create_global_schema" =>
          /\ ret'.val \in GlobalKeys(global_schemas')
          /\ global_schemas'[GlobalIndex(global_schemas', ret'.val)] =
                 [schema_id |-> ret'.val,
                  name |-> ret'.arg.name,
                  version |-> "1.0.0",
                  properties |-> ret'.arg.properties,
                  parent_schema_id |-> ret'.arg.parent_id,
                  source_schemas |-> {}]
          /\ document_schemas' = document_schemas
          /\ mappings' = mappings
          /\ \A i \in 1..Len(global_schemas) :
                 \E j \in 1..Len(global_schemas') : global_schemas'[j] = global_schemas[i]]_vars

\* the projection after the first k mappings of ms were evaluated one after
\* the other, each one's record replacing what stood under its targets
RECURSIVE Evaluated(_, _, _)
Evaluated(doc, ms, k) ==
    IF k = 0 THEN EmptyDict
    ELSE LET earlier == Evaluated(doc, ms, k - 1)
         IN  IF HasValue(doc, ms[k])
             THEN [g \in (DOMAIN earlier) \cup Targets(ms[k]) |->
                      IF g \in Targets(ms[k]) THEN RecordOf(doc, ms[k]) ELSE earlier[g]]
             ELSE earlier

\* C25: the list that get_schema_hierarchy reports for a document id holds
\* that id's mappings in the order of their add_mapping calls, each reduced
\* to local property, targets and confidence, and the projection evaluates
\* the mappings in that same order.
C25_InsertionOrder ==
    /\ [][ret'.op = "add_mapping" =>
             LET d == ret'.arg.doc_schema_id
             IN  /\ SubSeq(mappings'[d], 1, Len(mappings'[d]) - 1) = ListOf(mappings, d)
                 /\ AsPassed(mappings'[d][Len(mappings'[d])]) = ret'.arg.mapping]_vars
    /\ [](IsHierarchy =>
             /\ DOMAIN ret.val.mappings = DOMAIN mappings
             /\ \A d \in DOMAIN mappings :
                    /\ Len(ret.val.mappings[d]) = Len(mappings[d])
                    /\ \A i \in 1..Len(mappings[d]) :
                           ret.val.mappings[d][i] =
                               [local_property |-> mappings[d][i].local_property,
                                global_properties |-> mappings[d][i].global_properties,
                                confidence |-> mappings[d][i].confidence])
    /\ [](ReturnedProjection =>
             ret.val = Evaluated(document_schemas[ret.arg], mappings[ret.arg],
                                 Len(mappings[ret.arg])))

\* the snapshot lists two different mappings of one id, the one added first in front
C25_Witness ==
    /\ IsHierarchy
    /\ \E d \in DOMAIN mappings :
           /\ Len(mappings[d]) = 2
           /\ mappings[d][1].local_property = "b"
           /\ mappings[d][2].local_property = "a"
           /\ ret.val.mappings[d][1].local_property = "b"
           /\ ret.val.mappings[d][2].local_property = "a"

\* C26: adding the same mapping to the same id twice in a row: the second
\* add_mapping makes the id's list one element longer and leaves every
\* source_schemas set and every projection as the first one left them.
C26_RepeatedAdd ==
    [][(IsAdd /\ ret'.op = "add_mapping" /\ ret'.arg = ret.arg) =>
          LET d == ret.arg.doc_schema_id
          IN  /\ Len(mappings'[d]) = Len(mappings[d]) + 1
              /\ mappings'[d][Len(mappings'[d])] = mappings[d][Len(mappings[d])]
              /\ global_schemas' = global_schemas
              /\ \A id \in DocIds : DocumentValues(id)' = DocumentValues(id)]_vars

\* the same converting mapping was added twice in a row to a registered
\* document whose id a global schema tracks as a source
C26_Witness ==
    /\ IsAdd
    /\ ret.arg.doc_schema_id \in DOMAIN document_schemas
    /\ LET ms == mappings[ret.arg.doc_schema_id]
       IN  /\ Len(ms) = 2
           /\ ms[1] = ms[2]
           /\ AsPassed(ms[2]) = ret.arg.mapping
           /\ ms[2].transformation_rules = Convert
    /\ DocumentValues(ret.arg.doc_schema_id) # EmptyDict
    /\ \E i \in 1..Len(global_schemas) :
           ret.arg.doc_schema_id \in global_schemas[i].source_schemas

(***************************************************************************)
(* The projection of one document in registries that hold the same         *)
(* document schema and the same mapping list and differ in their global    *)
(* schemas.  The registry starts as a sequence of calls leaves it: the     *)
(* document registered (or not), then its mappings added, then the global  *)
(* schemas created, which therefore have no sources.  The local property a *)
(* holds a present value, falsy or not, or null, or is missing; the local  *)
(* property b is always missing.                                           *)
(***************************************************************************)
ProbeValues ==
    {PyInt(0), PyStr(<<>>), PyBool(FALSE), PyList(<<>>), EmptyDict,
     PyInt(3), PyStr(<<"A">>), None}
ProbeDocuments ==
    {[schema_id |-> "d1", jurisdiction |-> "j1", document_title |-> "t1", properties |-> props] :
        props \in {[k \in {"a"} |-> v] : v \in ProbeValues} \cup {EmptyDict}}
ProbeMappings ==
    {SchemaMapping("a", <<"p">>, 9, NoRules),
     SchemaMapping("a", <<"p", "q">>, 5, Convert),
     SchemaMapping("a", <<"q">>, 5, Normalize),
     SchemaMapping("b", <<"p">>, 5, NoRules)}
RECURSIVE ProbeLists(_)
ProbeLists(n) ==
    IF n = 0 THEN {<<>>}
    ELSE LET shorter == ProbeLists(n - 1)
         IN  shorter \cup {Append(ms, m) : ms \in {x \in shorter : Len(x) = n - 1},
                                          m \in ProbeMappings}
\* the lists as add_mapping stored them
StoredList(ms, registered) ==
    [i \in 1..Len(ms) |->
        [local_property |-> ms[i].local_property,
         global_properties |-> ms[i].global_properties,
         confidence |-> ms[i].confidence,
         transformation_rules |-> ms[i].transformation_rules,
         dangling |-> ~registered]]
GlobalSchema(schema_id, properties) ==
    [schema_id |-> schema_id, name |-> "n1", version |-> "1.0.0", properties |-> properties,
     parent_schema_id |-> NoneId, source_schemas |-> {}]
ProbeGlobals ==
    {<<>>,
     <<GlobalSchema("g1", [p |-> "def"])>>,
     <<GlobalSchema("g2", [p |-> "def", q |-> "def"])>>,
     <<GlobalSchema("g1", [p |-> "def"]), GlobalSchema("g2", [p |-> "def", q |-> "def"])>>}

ProjectionInit ==
    /\ \E registered \in BOOLEAN :
           /\ document_schemas \in
                  IF registered THEN {[k \in {"d1"} |-> doc] : doc \in ProbeDocuments}
                  ELSE {EmptyDict}
           /\ mappings \in {[k \in {"d1"} |-> StoredList(ms, registered)] :
                               ms \in ProbeLists(MaxMappings)}
    /\ global_schemas \in ProbeGlobals
    /\ ret = [op |-> "__init__", arg |-> NoneId, val |-> None]
    /\ CallerIdle

\* the same calls were made on another registry, whose global schemas differ:
\* out keeps the projection and the global schemas of the registry left
OtherRegistry ==
    /\ IsProjection
    /\ out' = [arg |-> ret.arg, val |-> ret.val, global_schemas |-> global_schemas]
    /\ global_schemas' \in ProbeGlobals \ {global_schemas}
    /\ ret' = [op |-> "other_registry", arg |-> NoneId, val |-> None]
    /\ UNCHANGED <<document_schemas, mappings, held, in_value, in_rules, threads, bridge>>

ProjectionNext == GetValues \/ OtherRegistry

SpecProjection == ProjectionInit /\ [][ProjectionNext]_vars

\* the local property of m is a key of the document's properties and its value is not null
Present(doc, m) ==
    /\ m.local_property \in DOMAIN doc.properties
    /\ doc.properties[m.local_property] # None

\* C27: presence of a local value is decided by non-null alone: a mapping
\* whose local property holds a present value, falsy (0, the empty string,
\* false, an empty sequence or mapping) or not, has an entry under each of its
\* targets carrying that value as original value; a mapping whose local
\* property is missing or null produces none.
C27_PresenceIsNonNull ==
    ReturnedProjection =>
        LET doc == document_schemas[ret.arg]
            ms == ListOf(mappings, ret.arg)
        IN  /\ DOMAIN ret.val =
                   UNION {Targets(ms[i]) : i \in {j \in 1..Len(ms) : Present(doc, ms[j])}}
            /\ \A i \in 1..Len(ms) :
                   Present(doc, ms[i]) =>
                       \A g \in Targets(ms[i]) :
                           \E j \in i..Len(ms) :
                               /\ Present(doc, ms[j]) /\ g \in Targets(ms[j])
                               /\ ret.val[g].original_property = ms[j].local_property
                               /\ ret.val[g].original_value = doc.properties[ms[j].local_property]
                               /\ ret.val[g].confidence = ms[j].confidence

\* the projection of a document whose property a is the empty string has
\* entries with that original value, and none from the mapping of the missing b
C27_Witness ==
    /\ ReturnedProjection
    /\ document_schemas[ret.arg].properties = [k \in {"a"} |-> PyStr(<<>>)]
    /\ \E i, j \in 1..Len(mappings[ret.arg]) :
           /\ mappings[ret.arg][i].local_property = "a"
           /\ mappings[ret.arg][j].local_property = "b"
    /\ DOMAIN ret.val = {"q"}
    /\ ret.val["q"].original_value = PyStr(<<>>)

\* the list ms without its i-th mapping
Without(ms, i) == SubSeq(ms, 1, i - 1) \o SubSeq(ms, i + 1, Len(ms))

\* C28: a mapping whose local property is missing or null in the document
\* contributes nothing, wherever it stands in the list: the projection is the
\* one computed with that mapping removed, so it creates no entry and neither
\* erases nor replaces an entry that an earlier mapping wrote.
C28_NullContributesNothing ==
    (IsProjection /\ ret.arg \in DOMAIN document_schemas) =>
        LET doc == document_schemas[ret.arg]
            ms == ListOf(mappings, ret.arg)
        IN  \A i \in 1..Len(ms) :
                ~Present(doc, ms[i]) =>
                    /\ ret.val = Project(doc, Without(ms, i))
                    /\ ~IsRaise(ret.val) =>
                           ret.val = Evaluated(doc, Without(ms, i), Len(ms) - 1)

\* a mapping with a value wrote p, a later mapping without a value targets
\* p too, and the entry of the first one is reported
C28_Witness ==
    /\ ReturnedProjection
    /\ LET doc == document_schemas[ret.arg]
           ms == mappings[ret.arg]
       IN  /\ Len(ms) = 2
           /\ Present(doc, ms[1]) /\ ~Present(doc, ms[2])
           /\ "p" \in Targets(ms[1]) \cap Targets(ms[2])
           /\ "p" \in DOMAIN ret.val
           /\ ret.val["p"] = RecordOf(doc, ms[1])

\* the projection taken in the registry left behind, and the one just taken
\* in this registry, are of the same id
Compared ==
    /\ IsProjection
    /\ out # Pending
    /\ out.arg = ret.arg
    /\ out.global_schemas # global_schemas

\* C29: the projection does not depend on the global schemas: two registries
\* with the same document schemas and the same mapping lists, whatever their
\* global schemas (none included), return the same projection for every id;
\* its keys are the targets of the mappings with a value, declared or not.
C29_IndependentOfGlobals ==
    /\ Compared => ret.val = out.val
    /\ ReturnedProjection =>
           DOMAIN ret.val =
               UNION {Targets(mappings[ret.arg][i]) :
                         i \in {j \in 1..Len(mappings[ret.arg]) :
                                   Present(document_schemas[ret.arg], mappings[ret.arg][j])}}

\* the same projection with the key q was returned by a registry whose global
\* schemas declare q and by a registry without global schemas
C29_Witness ==
    /\ Compared
    /\ global_schemas = <<>>
    /\ Len(out.global_schemas) = 2
    /\ "q" \in DOMAIN ret.val
    /\ ret.val = out.val

(***************************************************************************)
(* Two threads of a host call add_mapping on one registry.  A thread can   *)
(* be preempted between the membership test (line 76), the creation of the *)
(* empty list (77), the lookup of the list and the append (78) and the     *)
(* steps of the tracking loop (81-84).  list tells what the thread's       *)
(* reference to the list is: "bound" while the list it looked up is the    *)
(* one stored under the id, "orphan" once another thread has stored a new  *)
(* list under that id.  A host that serializes its calls lets a call start *)
(* only when no other call is under way (owner = 0).                       *)
(***************************************************************************)
ThreadIds == {1, 2}
ThreadMappings == {SchemaMapping("a", <<"p">>, 9, NoRules),
                   SchemaMapping("b", <<"p", "q">>, 5, Normalize)}
Thread(doc_schema_id, mapping) ==
    [pc |-> "check", doc_schema_id |-> doc_schema_id, mapping |-> mapping,
     list |-> "none", i |-> 1]

\* the registry before the two calls: the id d1 unknown, or registered, or
\* unregistered with a mapping stored by an earlier add_mapping
InterleaveInit ==
    /\ \E known \in {"unknown", "registered", "mapped"} :
           /\ document_schemas =
                  IF known = "registered"
                  THEN [k \in {"d1"} |-> CHOOSE doc \in DocumentSchemas :
                                             doc.schema_id = "d1" /\ doc.jurisdiction = "j1"]
                  ELSE EmptyDict
           /\ mappings = CASE known = "unknown" -> EmptyDict
                           [] known = "registered" -> [k \in {"d1"} |-> <<>>]
                           [] OTHER -> [k \in {"d1"} |->
                                           StoredList(<<SchemaMapping("a", <<"q">>, 9, NoRules)>>,
                                                      FALSE)]
    /\ global_schemas \in {<<>>, <<GlobalSchema("g1", [p |-> "def"])>>}
    /\ ret = [op |-> "__init__", arg |-> NoneId, val |-> None]
    /\ held = None /\ in_value = None /\ in_rules = None /\ out = Pending
    /\ bridge = None
    /\ \E serialized \in BOOLEAN, d \in DocIds, m1, m2 \in ThreadMappings :
           threads = [serialized |-> serialized, owner |-> 0, before |-> mappings,
                      of |-> <<Thread("d1", m1), Thread(d, m2)>>]

unthreaded == <<held, in_value, in_rules, out, bridge>>

\* a variant of line 76 that takes the key for missing whatever the dictionary holds
TestKey_Always(t) ==
    LET self == threads.of[t] IN
    /\ self.pc = "check"
    /\ threads.serialized => threads.owner = 0
    /\ threads' = [threads EXCEPT !.owner = IF threads.serialized THEN t ELSE 0,
                                  !.of[t].pc = "create"]
    /\ UNCHANGED <<document_schemas, global_schemas, mappings, ret, unthreaded>>

\* line 76: if doc_schema_id not in self.mappings
TestKey(t) ==
    LET self == threads.of[t] IN
    /\ self.pc = "check"
    /\ threads.serialized => threads.owner = 0
    /\ threads' = [threads EXCEPT !.owner = IF threads.serialized THEN t ELSE 0,
                                  !.of[t].pc = IF self.doc_schema_id \notin DOMAIN mappings
                                               THEN "create" ELSE "fetch"]
    /\ UNCHANGED <<document_schemas, global_schemas, mappings, ret, unthreaded>>

\* line 77: self.mappings[doc_schema_id] = []
CreateList(t) ==
    LET self == threads.of[t] IN
    /\ self.pc = "create"
    /\ mappings' = DictSet(mappings, self.doc_schema_id, <<>>)
    /\ threads' = [threads EXCEPT !.of =
                      [u \in 1..Len(@) |->
                          IF u = t THEN [@[u] EXCEPT !.pc = "fetch"]
                          ELSE IF @[u].doc_schema_id = self.doc_schema_id /\ @[u].list = "bound"
                          THEN [@[u] EXCEPT !.list = "orphan"]
                          ELSE @[u]]]
    /\ UNCHANGED <<document_schemas, global_schemas, ret, unthreaded>>

\* line 78, first half: self.mappings[doc_schema_id]
FetchList(t) ==
    LET self == threads.of[t] IN
    /\ self.pc = "fetch"
    /\ threads' = [threads EXCEPT !.of[t].pc = "append", !.of[t].list = "bound"]
    /\ UNCHANGED <<document_schemas, global_schemas, mappings, ret, unthreaded>>

\* line 78, second half: .append(mapping), on the list that was looked up
AppendMapping(t) ==
    LET self == threads.of[t] IN
    /\ self.pc = "append"
    /\ mappings' = IF self.list = "bound"
                   THEN [mappings EXCEPT ![self.doc_schema_id] =
                            Append(@, Stored(self.mapping, self.doc_schema_id))]
                   ELSE mappings
    /\ threads' = [threads EXCEPT !.of[t].pc = "track"]
    /\ UNCHANGED <<document_schemas, global_schemas, ret, unthreaded>>

\* lines 81-84: one turn of the tracking loop, or the return when it is over
TrackTarget(t) ==
    LET self == threads.of[t] IN
    /\ self.pc = "track"
    /\ IF self.i > Len(self.mapping.global_properties)
       THEN /\ threads' = [threads EXCEPT !.owner = 0, !.of[t].pc = "done"]
            /\ ret' = [op |-> "add_mapping",
                       arg |-> [doc_schema_id |-> self.doc_schema_id, mapping |-> self.mapping],
                       val |-> None]
            /\ UNCHANGED global_schemas
       ELSE /\ global_schemas' =
                   TrackSources(global_schemas,
                                <<self.mapping.global_properties[self.i]>>, 1,
                                self.doc_schema_id)
            /\ threads' = [threads EXCEPT !.of[t].i = @ + 1]
            /\ UNCHANGED ret
    /\ UNCHANGED <<document_schemas, mappings, unthreaded>>

InterleaveNext ==
    \E t \in ThreadIds :
        \/ TestKey(t) \/ CreateList(t) \/ FetchList(t) \/ AppendMapping(t) \/ TrackTarget(t)

SpecInterleave == InterleaveInit /\ [][InterleaveNext]_vars

AllDone == \A t \in ThreadIds : threads.of[t].pc = "done"
SameId == threads.of[1].doc_schema_id = threads.of[2].doc_schema_id
\* the mappings the list of the id has gained since the two calls began
Gained ==
    LET d == threads.of[1].doc_schema_id
        before == ListOf(threads.before, d)
        now == ListOf(mappings, d)
    IN  [i \in 1..(Len(now) - Len(before)) |-> AsPassed(now[Len(before) + i])]
\* both calls have left their mapping in the list
BothStored ==
    /\ Len(Gained) = 2
    /\ \/ Gained = <<threads.of[1].mapping, threads.of[2].mapping>>
       \/ Gained = <<threads.of[2].mapping, threads.of[1].mapping>>

\* C22: serializing the calls is sufficient and required: when each call runs
\* alone, two add_mapping calls for one id both leave their mapping in the
\* id's list; calls that interleave lose nothing as long as the id already
\* has a list, and when the id has none yet they may leave only one of the
\* two mappings, never none and never anything else.
C22_Serialization ==
    (AllDone /\ SameId) =>
        LET d == threads.of[1].doc_schema_id IN
        /\ d \in DOMAIN mappings
        /\ Len(ListOf(threads.before, d)) <= Len(mappings[d])
        /\ IsPrefix(ListOf(threads.before, d), mappings[d])
        /\ threads.serialized => BothStored
        /\ d \in DOMAIN threads.before => BothStored
        /\ \/ BothStored
           \/ Gained = <<threads.of[1].mapping>>
           \/ Gained = <<threads.of[2].mapping>>

\* two interleaved calls for an id without a list have returned and the list
\* holds the mapping of one of them only
C22_Witness ==
    /\ AllDone /\ SameId
    /\ ~threads.serialized
    /\ threads.of[1].doc_schema_id \notin DOMAIN threads.before
    /\ threads.of[1].mapping # threads.of[2].mapping
    /\ Len(mappings[threads.of[1].doc_schema_id]) = 1

(***************************************************************************)
(* IntegrationBridge.ingest_raw_documents (integration_bridge.py).  The    *)
(* documents of the call are numbered 1..n in list order; the database     *)
(* answers each insert with data, with no data, or with an exception.      *)
(* bridge holds the call: pc its position, i the offset of the batch, j    *)
(* the position in the batch, batches the batches handed to                *)
(* _process_document_batch so far.                                         *)
(***************************************************************************)
MaxDocuments == 12      \* most documents in one call
batch_size == 10        \* self.batch_size

InsertOutcomes == {"data", "no_data", "raised"}
NoResults == [processed |-> 0, failed |-> 0, document_ids |-> <<>>, errors |-> <<>>]

\* _store_document: the id of the inserted row, None when the insert gave no
\* data or raised (the exception is logged and swallowed)
_store_document(doc, insert) ==
    IF insert = "data" THEN [t |-> "id", of |-> doc] ELSE None

\* a variant of _create_extraction_job without its try/except
_create_extraction_job_Unguarded(document_id, insert) ==
    IF insert = "raised" THEN Raise("Exception") ELSE None

\* _create_extraction_job: returns None whatever the insert did
_create_extraction_job(document_id, insert) == None

\* one turn of the loop of _process_document_batch
ProcessOne(batch_results, doc, store, job) ==
    LET document_id == _store_document(doc, store) IN
    IF IsRaise(document_id)
    THEN [batch_results EXCEPT !.failed = @ + 1,
                               !.errors = Append(@, [doc |-> doc, text |-> "Error processing"])]
    ELSE IF document_id # None
    THEN LET counted == [batch_results EXCEPT !.document_ids = Append(@, document_id),
                                              !.processed = @ + 1]
         IN  IF IsRaise(_create_extraction_job(document_id, job))
             THEN [counted EXCEPT !.failed = @ + 1,
                                  !.errors = Append(@, [doc |-> doc, text |-> "Error processing"])]
             ELSE counted
    ELSE [batch_results EXCEPT !.failed = @ + 1,
                               !.errors = Append(@, [doc |-> doc, text |-> "Failed to store document"])]

IngestInit ==
    /\ RegistryInit
    /\ held = None /\ in_value = None /\ in_rules = None /\ out = Pending
    /\ threads = <<>>
    /\ \E n \in 0..MaxDocuments :
           bridge = [pc |-> "loop", n |-> n, i |-> 0, j |-> 1, batch |-> <<>>,
                     batch_results |-> NoResults, results |-> NoResults, batches |-> <<>>]

unbridged == <<document_schemas, global_schemas, mappings, ret, held, in_value, in_rules, out,
               threads>>

\* for i in range(0, len(documents), self.batch_size): batch = documents[i:i + batch_size]
NextBatch ==
    /\ bridge.pc = "loop"
    /\ IF bridge.i < bridge.n
       THEN LET last == IF bridge.i + batch_size < bridge.n THEN bridge.i + batch_size
                        ELSE bridge.n
                batch == [k \in 1..(last - bridge.i) |-> bridge.i + k]
            IN  bridge' = [bridge EXCEPT !.pc = "batch", !.batch = batch, !.j = 1,
                                         !.batch_results = NoResults,
                                         !.batches = Append(@, batch)]
       ELSE bridge' = [bridge EXCEPT !.pc = "returned"]
    /\ UNCHANGED unbridged

\* for doc in documents: try ... except, with what the database answers
ProcessDocument ==
    /\ bridge.pc = "batch"
    /\ bridge.j <= Len(bridge.batch)
    /\ \E store \in InsertOutcomes, job \in InsertOutcomes :
           bridge' = [bridge EXCEPT
                         !.batch_results = ProcessOne(@, bridge.batch[bridge.j], store, job),
                         !.j = @ + 1]
    /\ UNCHANGED unbridged

\* the batch has returned: its results are added to the results of the call
MergeBatch ==
    /\ bridge.pc = "batch"
    /\ bridge.j > Len(bridge.batch)
    /\ bridge' = [bridge EXCEPT
                     !.results = [processed |-> @.processed + bridge.batch_results.processed,
                                  failed |-> @.failed + bridge.batch_results.failed,
                                  document_ids |-> @.document_ids \o bridge.batch_results.document_ids,
                                  errors |-> @.errors \o bridge.batch_results.errors],
                     !.i = @ + batch_size,
                     !.pc = "loop"]
    /\ UNCHANGED unbridged

IngestNext == NextBatch \/ ProcessDocument \/ MergeBatch

SpecIngest == IngestInit /\ [][IngestNext]_vars

RECURSIVE Flatten(_)
Flatten(lists) == IF lists = <<>> THEN <<>> ELSE Head(lists) \o Flatten(Tail(lists))
Returned == bridge # None /\ bridge.pc = "returned"

====
